---------------------------- MODULE Spec2Model ----------------------------
(***************************************************************************)
(* A model of the two reimbursement agents of samples/python/agents:       *)
(*   finace_server/agent.py            FinanceAgent (_check_compliance,    *)
(*                                     invoke, stream)                     *)
(*   taxi_reimbursement_agent/agent.py is_valid_pickup_location,           *)
(*                                     is_valid_pickup_time,               *)
(*                                     create_taxi_request_form,           *)
(*                                     reimburse_taxi,                     *)
(*                                     TaxiReimbursementAgent.stream       *)
(*                                                                         *)
(* Python values are modelled as tagged records (JSON-like values).  The   *)
(* Chinese dictionary keys and category names of the source are written    *)
(* with ASCII names:                                                       *)
(*   "类别" category   "金额" amount   "日期" date   "是否有发票" has_invoice  *)
(*   "合规" compliant  "原因" reasons                                        *)
(*   "交通费" transport "餐饮费" meals "住宿费" lodging                       *)
(*   "办公用品" office  "其他" other                                         *)
(*   "最高限额" max_amount "需要发票" need_invoice                            *)
(*   "每日次数限制" daily_limit                                              *)
(* Amounts are Python floats in the source; the model draws them from      *)
(* small integers, on which float arithmetic is exact.                     *)
(***************************************************************************)
EXTENDS Integers, Sequences, FiniteSets, TLC

VARIABLES
    cc,            \* one call of FinanceAgent._check_compliance: arguments and return
    calls,         \* FinanceAgent: the invoke calls and stream generators of one instance
    clock,         \* the day datetime.now() reports
    request_ids,   \* taxi agent.py: the module-level set request_ids
    issued,        \* the request ids create_taxi_request_form returned, in call order
    taxi,          \* the last tool call of the taxi agent: arguments and return
    pt,            \* one call of is_valid_pickup_time: argument and return
    pl,            \* one call of is_valid_pickup_location: argument and return
    ts             \* one TaxiReimbursementAgent.stream generator and its runner

vars == <<cc, calls, clock, request_ids, issued, taxi, pt, pl, ts>>

----------------------------------------------------------------------------
(* Python / JSON values *)

NoFields == [k \in {} |-> 0]

JNum(x) == [type |-> "number", n |-> x, s |-> "", items |-> <<>>, fields |-> NoFields]
JStr(x) == [type |-> "string", n |-> 0, s |-> x, items |-> <<>>, fields |-> NoFields]
JBool(b) == [type |-> "bool", n |-> IF b THEN 1 ELSE 0, s |-> "", items |-> <<>>, fields |-> NoFields]
JNull == [type |-> "null", n |-> 0, s |-> "", items |-> <<>>, fields |-> NoFields]
JList(xs) == [type |-> "list", n |-> 0, s |-> "", items |-> xs, fields |-> NoFields]
JDict(f) == [type |-> "dict", n |-> 0, s |-> "", items |-> <<>>, fields |-> f]

\* dict.get(key, default)
Get(d, key, default) == IF key \in DOMAIN d.fields THEN d.fields[key] ELSE default

\* bool(v): Python truthiness, as used by `not has_invoice`
Truthy(v) ==
    CASE v.type = "bool" -> v.n = 1
      [] v.type = "number" -> v.n # 0
      [] v.type = "string" -> v.s # ""
      [] v.type = "null" -> FALSE
      [] v.type = "list" -> Len(v.items) > 0
      [] v.type = "dict" -> DOMAIN v.fields # {}

\* The strings float() accepts, with their values (the ones the model draws).
NumericStrings == [s \in {"100", "101"} |-> IF s = "100" THEN 100 ELSE 101]

\* float(v): [exc |-> "" , val |-> x] or the exception raised
ToFloat(v) ==
    CASE v.type = "number" -> [exc |-> "", val |-> v.n]
      [] v.type = "bool" -> [exc |-> "", val |-> v.n]
      [] v.type = "string" ->
            IF v.s \in DOMAIN NumericStrings
            THEN [exc |-> "", val |-> NumericStrings[v.s]]
            ELSE [exc |-> "ValueError", val |-> 0]
      [] OTHER -> [exc |-> "TypeError", val |-> 0]

----------------------------------------------------------------------------
(* FinanceAgent.__init__: self.reimbursement_rules *)

DailyMealLimit == 3

reimbursement_rules ==
    [c \in {"transport", "meals", "lodging", "office", "other"} |->
        CASE c = "transport" -> [max_amount |-> 300, need_invoice |-> TRUE]
          [] c = "meals" -> [max_amount |-> 100, need_invoice |-> TRUE,
                             daily_limit |-> DailyMealLimit]
          [] c = "lodging" -> [max_amount |-> 500, need_invoice |-> TRUE]
          [] c = "office" -> [max_amount |-> 200, need_invoice |-> TRUE]
          [] c = "other" -> [max_amount |-> 100, need_invoice |-> TRUE,
                             extra_approval |-> TRUE]]


----------------------------------------------------------------------------
(* FinanceAgent._check_compliance *)

\* `for expense in expenses`: the elements the loop visits, or the exception
\* iter() raises.  A string yields its characters and a dict its keys (both
\* str objects); a number, a bool or None is not iterable.
IterItems(expenses) ==
    CASE expenses.type = "list" -> [exc |-> "", items |-> expenses.items]
      [] expenses.type = "string" ->
            [exc |-> "", items |-> IF expenses.s = "" THEN <<>> ELSE <<JStr(expenses.s)>>]
      [] expenses.type = "dict" ->
            [exc |-> "", items |-> IF DOMAIN expenses.fields = {} THEN <<>>
                                   ELSE <<JStr("key")>>]
      [] OTHER -> [exc |-> "TypeError", items |-> <<>>]

\* len(expenses), for the values IterItems accepts
PyLen(expenses) ==
    CASE expenses.type = "list" -> Len(expenses.items)
      [] expenses.type = "dict" -> Cardinality(DOMAIN expenses.fields)
      [] OTHER -> 0

\* list and dict values are unhashable: `x in some_dict` raises TypeError
Hashable(v) == v.type \notin {"list", "dict"}

\* ResolveCategory without the fallback of line 66 for unknown names
ResolveCategoryNoFallback(category) ==
    IF category.type = "string" THEN category.s ELSE "other"

\* lines 65-66: `if category not in self.reimbursement_rules: category = "其他"`
ResolveCategory(category) ==
    IF category.type = "string" /\ category.s \in DOMAIN reimbursement_rules
    THEN category.s
    ELSE "other"

\* ExceedsCap with >= for >
ExceedsCapInclusive(amount, rule) == amount >= rule.max_amount

\* lines 73-75: the cap check
ExceedsCap(amount, rule) == amount > rule.max_amount

\* lines 78-80: the invoice check
LacksInvoice(has_invoice, rule) == rule.need_invoice /\ ~Truthy(has_invoice)

\* CountsMeal reading the verdict so far: only an item that passed the cap
\* and invoice checks is counted
CountsMealIfCompliant(category, is_compliant) == category = "meals" /\ is_compliant

\* line 83: whether the item enters the daily count.  The test reads the
\* category alone; is_compliant, set by lines 73-80, is not consulted.
CountsMeal(category, is_compliant) == category = "meals"

\* lines 84-88: create the day's entry if absent, then count the item
CountMeal(daily_meals, date, amount) ==
    LET old == IF date \in DOMAIN daily_meals THEN daily_meals[date]
               ELSE [count |-> 0, total |-> 0]
    IN [d \in DOMAIN daily_meals \cup {date} |->
            IF d = date THEN [count |-> old.count + 1, total |-> old.total + amount]
            ELSE daily_meals[d]]

\* ExceedsDailyLimit with >= for >
ExceedsDailyLimitInclusive(daily_meals, date, rule) ==
    daily_meals[date].count >= rule.daily_limit

\* line 90: the daily count check, after the increment
ExceedsDailyLimit(daily_meals, date, rule) == daily_meals[date].count > rule.daily_limit

\* Reasons stopping at the first violated check
ReasonsFirstOnly(cap, invoice, daily) ==
    IF cap # <<>> THEN cap ELSE IF invoice # <<>> THEN invoice ELSE daily

\* lines 70-92: reasons starts empty and each violated check appends its
\* entry, in the order the checks run: cap (75), invoice (80), daily (92)
Reasons(cap, invoice, daily) == cap \o invoice \o daily

\* lines 95-102: expense.copy() with the verdict written into the copy
Annotate(expense, is_compliant, reasons) ==
    LET keys == DOMAIN expense.fields \cup {"compliant"}
                  \cup (IF is_compliant THEN {} ELSE {"reasons"})
    IN JDict([k \in keys |->
                IF k = "compliant" THEN JBool(is_compliant)
                ELSE IF k = "reasons" /\ ~is_compliant THEN JList(reasons)
                ELSE expense.fields[k]])

\* ExpenseAfter without the .copy() of line 95: expense_result is the
\* submitted object itself
ExpenseAfterNoCopy(expense, expense_result) == expense_result

\* lines 95-102: the object `expense` refers to once the verdict is written.
\* expense.copy() is a new dict and lines 96 and 102 assign into it, so the
\* submitted object keeps its fields.
ExpenseAfter(expense, expense_result) == expense

\* Tally inserting at the head of the list instead of appending
TallyPrepends(st, expense_result, is_compliant, amount) ==
    IF is_compliant
    THEN [st EXCEPT !.compliant_expenses = <<expense_result>> \o @,
                    !.total_amount = @ + amount]
    ELSE [st EXCEPT !.non_compliant_expenses = <<expense_result>> \o @]

\* Tally with `total_amount += amount` outside the `if`
TallyAddsAlways(st, expense_result, is_compliant, amount) ==
    IF is_compliant
    THEN [st EXCEPT !.compliant_expenses = Append(@, expense_result),
                    !.total_amount = @ + amount]
    ELSE [st EXCEPT !.non_compliant_expenses = Append(@, expense_result),
                    !.total_amount = @ + amount]

\* lines 98-103: the annotated copy joins one of the two lists; the total
\* grows by the amount of a compliant item only.
Tally(st, expense_result, is_compliant, amount) ==
    IF is_compliant
    THEN [st EXCEPT !.compliant_expenses = Append(@, expense_result),
                    !.total_amount = @ + amount]
    ELSE [st EXCEPT !.non_compliant_expenses = Append(@, expense_result)]

\* LoopInit with daily_meals kept on the instance instead of line 56's new
\* dict: an evaluation starts from the counts the evaluations that already
\* ran on the instance (the invoke calls that returned, the generators past
\* their evaluation) left behind.
EvaluatedSlots ==
    {j \in DOMAIN calls :
        \/ calls[j].mode = "invoke"
        \/ calls[j].mode = "stream" /\ calls[j].pc \in {"done", "closed"}}

MealDatesOf(query) ==
    IF /\ query.data.type = "dict"
       /\ "expenses" \in DOMAIN query.data.fields
       /\ query.data.fields["expenses"].type = "list"
    THEN LET items == query.data.fields["expenses"].items
         IN [k \in {k \in 1 .. Len(items) :
                       /\ items[k].type = "dict"
                       /\ ResolveCategory(Get(items[k], "category", JStr("other")))
                             = "meals"}
               |-> Get(items[k], "date", JStr(clock))]
    ELSE [k \in {} |-> JNull]

LoopInitShared ==
    LET left == [j \in EvaluatedSlots |-> MealDatesOf(calls[j].query)]
        dates == UNION {{left[j][k] : k \in DOMAIN left[j]} : j \in EvaluatedSlots}
        count(d) == Cardinality({<<j, k>> \in UNION {{<<j, k>> : k \in DOMAIN left[j]} :
                                                        j \in EvaluatedSlots} :
                                    left[j][k] = d})
    IN [exc |-> "", total_amount |-> 0, compliant_expenses |-> <<>>,
        non_compliant_expenses |-> <<>>,
        daily_meals |-> [d \in dates |-> [count |-> count(d), total |-> 0]],
        trace |-> <<>>, after |-> <<>>]

\* The state of the loop of _check_compliance before its first iteration
\* (lines 51-56); exc is the exception that ended it, "" while it runs.
\* trace is no variable of the code: it records the annotated copy each
\* iteration produced, in iteration order.  after holds the objects of the
\* submitted list the loop has visited, as they are after their iteration.
LoopInit ==
    [exc |-> "", total_amount |-> 0, compliant_expenses |-> <<>>,
     non_compliant_expenses |-> <<>>, daily_meals |-> [d \in {} |-> 0],
     trace |-> <<>>, after |-> <<>>]

\* One iteration of the loop (lines 58-103).
LoopBody(st, expense, today) ==
    IF st.exc # "" THEN st
    ELSE IF expense.type # "dict" THEN [st EXCEPT !.exc = "AttributeError"]
    ELSE
      LET category0 == Get(expense, "category", JStr("other"))
          amt == ToFloat(Get(expense, "amount", JNum(0)))
          date == Get(expense, "date", JStr(today))
          has_invoice == Get(expense, "has_invoice", JBool(FALSE))
      IN IF amt.exc # "" THEN [st EXCEPT !.exc = amt.exc]
         ELSE IF ~Hashable(category0) THEN [st EXCEPT !.exc = "TypeError"]
         ELSE IF ResolveCategory(category0) \notin DOMAIN reimbursement_rules
         THEN [st EXCEPT !.exc = "KeyError"]
         ELSE
           LET category == ResolveCategory(category0)
               rule == reimbursement_rules[category]
               amount == amt.val
               r1 == IF ExceedsCap(amount, rule)
                     THEN <<[kind |-> "cap", category |-> category]>> ELSE <<>>
               r2 == IF LacksInvoice(has_invoice, rule)
                     THEN <<[kind |-> "invoice", category |-> category]>> ELSE <<>>
               counts == CountsMeal(category, r1 \o r2 = <<>>)
           IN IF counts /\ ~Hashable(date)
              THEN [st EXCEPT !.exc = "TypeError"]
              ELSE
                LET meals == IF counts
                             THEN CountMeal(st.daily_meals, date, amount)
                             ELSE st.daily_meals
                    r3 == IF counts /\ ExceedsDailyLimit(meals, date, rule)
                          THEN <<[kind |-> "daily", category |-> category]>> ELSE <<>>
                    reasons == Reasons(r1, r2, r3)
                    is_compliant == reasons = <<>>
                    expense_result == Annotate(expense, is_compliant, reasons)
                    counted == [st EXCEPT !.daily_meals = meals,
                                          !.trace = Append(@, expense_result),
                                          !.after = Append(@,
                                              ExpenseAfter(expense, expense_result))]
                IN Tally(counted, expense_result, is_compliant, amount)

\* The loop from its i-th iteration on.  (The state after an iteration is
\* bound as a value before the next iteration reads it.)
RECURSIVE Loop(_, _, _, _)
Loop(st, items, i, today) ==
    IF i > Len(items) THEN st
    ELSE CHOOSE r \in {Loop(next, items, i + 1, today) :
                           next \in {LoopBody(st, items[i], today)}} : TRUE

\* The submitted value once the loop has stopped in state st: the visited
\* objects as the loop left them, then the ones it never reached.
ExpensesAfter(expenses, st) ==
    IF expenses.type = "list"
    THEN JList(st.after \o SubSeq(expenses.items, Len(st.after) + 1,
                                  Len(expenses.items)))
    ELSE expenses

\* _check_compliance(expenses): [exc |-> "", result |-> the returned dict], or
\* the exception that leaves it; trace as in LoopInit; after is the value
\* `expenses` refers to when the call is over.
CheckCompliance(expenses, today) ==
    LET it == IterItems(expenses)
        st == Loop(LoopInit, it.items, 1, today)
    IN IF it.exc # ""
       THEN [exc |-> it.exc, result |-> JNull, trace |-> <<>>, after |-> expenses]
       ELSE IF st.exc # ""
       THEN [exc |-> st.exc, result |-> JNull, trace |-> <<>>,
             after |-> ExpensesAfter(expenses, st)]
       ELSE [exc |-> "", after |-> ExpensesAfter(expenses, st),
             result |-> [compliant_expenses |-> st.compliant_expenses,
                         non_compliant_expenses |-> st.non_compliant_expenses,
                         total_amount |-> st.total_amount,
                         item_count |-> PyLen(expenses),
                         compliant_count |-> Len(st.compliant_expenses),
                         non_compliant_count |-> Len(st.non_compliant_expenses)],
             trace |-> st.trace]

----------------------------------------------------------------------------
(* FinanceAgent.invoke and FinanceAgent.stream *)

\* The values invoke returns and the payloads stream yields.
\*   Text(t)           one of the two fixed MISSING_INFO strings
\*   ErrorText(e)      f"处理报销请求时出错: {str(e)}"
\*   Dumps(r, indent)  json.dumps(r, ensure_ascii=False, indent=indent)
\*   Response(d)       {"response": {"result": d}}
Text(t) == [kind |-> "text", text |-> t, exc |-> "", indent |-> 0, value |-> JNull]
ErrorText(e) == [kind |-> "error_text", text |-> "", exc |-> e, indent |-> 0, value |-> JNull]
Dumps(r, indent) == [kind |-> "json", text |-> "", exc |-> "", indent |-> indent, value |-> r]
Response(d) == [kind |-> "response", text |-> "", exc |-> "", indent |-> 0, value |-> d]

MissingJson == "MISSING_INFO: valid JSON required"
MissingExpenses == "MISSING_INFO: expenses field required"

\* json.loads(query) of a str query: the parsed value or JSONDecodeError.
\* A str query is modelled by whether it is valid JSON and, if so, the value
\* it denotes.
JsonLoads(query) ==
    IF query.valid_json THEN [exc |-> "", val |-> query.data]
    ELSE [exc |-> "JSONDecodeError", val |-> JNull]

\* `isinstance(data, dict) and "expenses" in data`
HasExpenses(data) == data.type = "dict" /\ "expenses" \in DOMAIN data.fields

\* Invoke without the `except Exception` of line 138: a fault in the
\* evaluation leaves invoke as an exception, Raised(e)
Raised(e) == [kind |-> "raised", text |-> "", exc |-> e, indent |-> 0, value |-> JNull]

InvokeNoCatch(query, today) ==
    LET parsed == IF query.is_str THEN JsonLoads(query)
                  ELSE [exc |-> "", val |-> query.data]
    IN IF parsed.exc = "JSONDecodeError" THEN Text(MissingJson)
       ELSE IF HasExpenses(parsed.val)
       THEN LET r == CheckCompliance(parsed.val.fields["expenses"], today)
            IN IF r.exc # "" THEN Raised(r.exc)
               ELSE Dumps(r.result, 2)
       ELSE Text(MissingExpenses)

\* invoke(query, session_id), lines 125-139
Invoke(query, today) ==
    LET parsed == IF query.is_str THEN JsonLoads(query)
                  ELSE [exc |-> "", val |-> query.data]
    IN IF parsed.exc = "JSONDecodeError" THEN Text(MissingJson)
       ELSE IF HasExpenses(parsed.val)
       THEN LET r == CheckCompliance(parsed.val.fields["expenses"], today)
            IN IF r.exc # "" THEN ErrorText(r.exc)
               ELSE Dumps(r.result, 2)
       ELSE Text(MissingExpenses)

\* The events stream yields.
InProgress == [is_task_complete |-> FALSE, updates |-> "processing", content |-> JNull]
Done(payload) == [is_task_complete |-> TRUE, updates |-> "", content |-> payload]

\* StreamCompute answering every query without an expenses field as it
\* answers an unparseable one
StreamComputeOneMarker(query, today) ==
    LET parsed == IF query.is_str THEN JsonLoads(query)
                  ELSE [exc |-> "", val |-> query.data]
    IN IF query.is_str /\ parsed.exc = "JSONDecodeError"
       THEN Done(Text(MissingJson))
       ELSE IF HasExpenses(parsed.val)
       THEN LET r == CheckCompliance(parsed.val.fields["expenses"], today)
            IN IF r.exc # "" THEN Done(ErrorText(r.exc))
               ELSE Done(Response(Dumps(r.result, 0)))
       ELSE Done(Text(MissingJson))

\* stream, lines 159-194: what runs between the first yield and the next one;
\* the event it yields.
StreamCompute(query, today) ==
    LET parsed == IF query.is_str THEN JsonLoads(query)
                  ELSE [exc |-> "", val |-> query.data]
    IN IF query.is_str /\ parsed.exc = "JSONDecodeError"
       THEN Done(Text(MissingJson))
       ELSE IF HasExpenses(parsed.val)
       THEN LET r == CheckCompliance(parsed.val.fields["expenses"], today)
            IN IF r.exc # "" THEN Done(ErrorText(r.exc))
               ELSE Done(Response(Dumps(r.result, 0)))
       ELSE Done(Text(MissingExpenses))

----------------------------------------------------------------------------
(* taxi_reimbursement_agent/agent.py: the validators *)

\* A location string is a sequence of words:
\*   "zgc" 中关村   "zbds" 资本大厦   "bm" 北门   "hdq" 海淀区
\*   "xynl" 学院南路   "wj" 望京   "gm" 国贸   "x" any other text
\* so that `a in b` is the search of a contiguous subsequence.
VALID_PICKUP_LOCATIONS ==
    << <<"zgc", "zbds">>, <<"zgc", "zbds", "bm">>, <<"hdq", "xynl">>,
       <<"xynl">>, <<"zbds">> >>

INVALID_LOCATION_KEYWORDS == << <<"zgc">>, <<"wj">>, <<"gm">> >>

\* Python's `sub in s` on str
Contains(s, sub) ==
    \E i \in 0 .. (Len(s) - Len(sub)) :
        \A j \in 1 .. Len(sub) : s[i + j] = sub[j]

\* is_valid_pickup_location answering TRUE at line 44 (default allow)
is_valid_pickup_locationDefaultAllow(location) ==
    IF \E k \in 1 .. Len(VALID_PICKUP_LOCATIONS) :
            Contains(location, VALID_PICKUP_LOCATIONS[k])
    THEN TRUE
    ELSE IF \E k \in 1 .. Len(INVALID_LOCATION_KEYWORDS) :
                /\ Contains(location, INVALID_LOCATION_KEYWORDS[k])
                /\ ~Contains(location, <<"zgc", "zbds">>)
    THEN FALSE
    ELSE TRUE

\* is_valid_pickup_location, lines 24-44
is_valid_pickup_location(location) ==
    IF \E k \in 1 .. Len(VALID_PICKUP_LOCATIONS) :
            Contains(location, VALID_PICKUP_LOCATIONS[k])
    THEN TRUE
    ELSE IF \E k \in 1 .. Len(INVALID_LOCATION_KEYWORDS) :
                /\ Contains(location, INVALID_LOCATION_KEYWORDS[k])
                /\ ~Contains(location, <<"zgc", "zbds">>)
    THEN FALSE
    ELSE FALSE

\* A time string is a sequence of tokens: a run of one or two digits (with
\* its value) or one of the symbols ":" "dian" (点) "fen" (分) "shi" (时)
\* "x" (any other text).
Digits(v) == [sym |-> "digits", val |-> v]
Sym(c) == [sym |-> c, val |-> 0]

\* line 58: formats
formats ==
    << <<"%H", ":", "%M">>, <<"%H", "dian", "%M", "fen">>,
       <<"%H", "shi", "%M", "fen">>, <<"%H", "dian">>, <<"%H", "shi">> >>

\* One directive or literal of a format against one token.
MatchesToken(f, tok) ==
    CASE f = "%H" -> tok.sym = "digits" /\ tok.val \in 0 .. 23
      [] f = "%M" -> tok.sym = "digits" /\ tok.val \in 0 .. 59
      [] OTHER -> tok.sym = f

\* datetime.strptime(s, fmt).time(): the whole string must match the format;
\* a field the format lacks is 0.  ok = FALSE is ValueError.
Strptime(s, fmt) ==
    IF Len(s) = Len(fmt) /\ \A i \in 1 .. Len(fmt) : MatchesToken(fmt[i], s[i])
    THEN [ok |-> TRUE,
          hour |-> s[CHOOSE i \in 1 .. Len(fmt) : fmt[i] = "%H"].val,
          minute |-> IF \E i \in 1 .. Len(fmt) : fmt[i] = "%M"
                     THEN s[CHOOSE i \in 1 .. Len(fmt) : fmt[i] = "%M"].val
                     ELSE 0]
    ELSE [ok |-> FALSE, hour |-> 0, minute |-> 0]

\* lines 60-65: the first format that parses, or none (parsed_time is None)
RECURSIVE TryFormats(_, _)
TryFormats(s, k) ==
    IF k > Len(formats) THEN [ok |-> FALSE, hour |-> 0, minute |-> 0]
    ELSE IF Strptime(s, formats[k]).ok THEN Strptime(s, formats[k])
    ELSE TryFormats(s, k + 1)

\* datetime.time ordering
TimeLE(a, b) == a.hour < b.hour \/ (a.hour = b.hour /\ a.minute <= b.minute)

night_start == [hour |-> 21, minute |-> 0]
morning_end == [hour |-> 5, minute |-> 0]

\* InWindow with < for <= at the morning end
InWindowMorningExclusive(t) ==
    TimeLE(night_start, t) \/ (TimeLE(t, morning_end) /\ ~TimeLE(morning_end, t))

\* line 74
InWindow(t) == TimeLE(night_start, t) \/ TimeLE(t, morning_end)

\* is_valid_pickup_time, lines 46-80.  pickup_time is [is_str, toks]; a value
\* that is no str makes strptime raise TypeError, which line 79 catches.
is_valid_pickup_time(pickup_time) ==
    IF ~pickup_time.is_str
    THEN [valid |-> FALSE, reason |-> "time_format_error"]
    ELSE LET parsed_time == TryFormats(pickup_time.toks, 1)
         IN IF ~parsed_time.ok
            THEN [valid |-> FALSE, reason |-> "unrecognized_time_format"]
            ELSE IF InWindow(parsed_time)
            THEN [valid |-> TRUE, reason |-> ""]
            ELSE [valid |-> FALSE, reason |-> "time_out_of_window"]

----------------------------------------------------------------------------
(* taxi_reimbursement_agent/agent.py: the tools *)

\* reimburse_taxi without the ledger check of lines 179-180
reimburse_taxiNoLedger(ids, request_id, pickup_location, pickup_time) ==
    IF ~is_valid_pickup_location(pickup_location)
    THEN [request_id |-> request_id, status |-> "rejected",
          reason |-> "location_not_allowed"]
    ELSE LET t == is_valid_pickup_time(pickup_time)
         IN IF ~t.valid
            THEN [request_id |-> request_id, status |-> "rejected",
                  reason |-> t.reason]
            ELSE [request_id |-> request_id, status |-> "approved"]

\* reimburse_taxi with the time check before the location check
reimburse_taxiTimeFirst(ids, request_id, pickup_location, pickup_time) ==
    IF request_id \notin ids
    THEN [request_id |-> request_id, status |-> "rejected",
          reason |-> "invalid_request_id"]
    ELSE LET t == is_valid_pickup_time(pickup_time)
         IN IF ~t.valid
            THEN [request_id |-> request_id, status |-> "rejected",
                  reason |-> t.reason]
            ELSE IF ~is_valid_pickup_location(pickup_location)
            THEN [request_id |-> request_id, status |-> "rejected",
                  reason |-> "location_not_allowed"]
            ELSE [request_id |-> request_id, status |-> "approved"]

\* reimburse_taxi, lines 171-200
reimburse_taxi(ids, request_id, pickup_location, pickup_time) ==
    IF request_id \notin ids
    THEN [request_id |-> request_id, status |-> "rejected",
          reason |-> "invalid_request_id"]
    ELSE IF ~is_valid_pickup_location(pickup_location)
    THEN [request_id |-> request_id, status |-> "rejected",
          reason |-> "location_not_allowed"]
    ELSE LET t == is_valid_pickup_time(pickup_time)
         IN IF ~t.valid
            THEN [request_id |-> request_id, status |-> "rejected",
                  reason |-> t.reason]
            ELSE [request_id |-> request_id, status |-> "approved"]

\* create_taxi_request_form, lines 100-108: the form returned for the id
\* random.randint drew; an absent or empty argument becomes its placeholder.
create_taxi_request_form(id, pickup_location, pickup_time) ==
    [request_id |-> id,
     pickup_location |-> IF pickup_location = <<>> THEN <<"placeholder">>
                         ELSE pickup_location,
     pickup_time |-> IF pickup_time = <<>> THEN <<Sym("placeholder")>>
                     ELSE pickup_time]

\* TaxiReimbursementAgent.stream, lines 257-269: the response of a final
\* event whose content holds `parts`; a part is "text" (its text is not
\* empty), "function_response" or "empty".  No content, or no parts, is <<>>.
FinalResponse(parts) ==
    IF Len(parts) > 0 /\ parts[1] = "text"
    THEN [exc |-> "", response |-> "text"]
    ELSE IF Len(parts) > 0 /\ \E i \in 1 .. Len(parts) : parts[i] = "function_response"
    THEN IF parts[1] = "function_response"
         THEN [exc |-> "", response |-> "function_response"]
         ELSE [exc |-> "AttributeError", response |-> ""]
    ELSE [exc |-> "", response |-> ""]

\* lines 254-278: the body of the `async for` for one runner event
TaxiStreamOnEvent(g, event) ==
    IF event.final
    THEN LET r == FinalResponse(event.parts)
         IN IF r.exc # "" THEN [g EXCEPT !.pc = "raised", !.exc = r.exc]
            ELSE [g EXCEPT !.events =
                     Append(@, [is_task_complete |-> TRUE, content |-> r.response])]
    ELSE [g EXCEPT !.events =
             Append(@, [is_task_complete |-> FALSE, content |-> "processing"])]

----------------------------------------------------------------------------
(* Bounds and the inputs drawn *)

MaxItems == 5          \* expenses per batch handed to _check_compliance
NumCalls == 2          \* invoke calls and stream generators on one FinanceAgent
MaxTimeTokens == 4     \* tokens of a pickup time string
MaxLocTokens == 3      \* words of a pickup location string
NumIds == 3            \* size of the space random.randint draws from
MaxForms == 3          \* calls of create_taxi_request_form
MaxRunnerEvents == 3   \* events the runner yields to one stream

Days == {"d1", "d2"}

Item(cat, amt, date, inv) ==
    JDict([k \in {"category", "amount", "date", "has_invoice"} |->
            CASE k = "category" -> cat
              [] k = "amount" -> amt
              [] k = "date" -> date
              [] k = "has_invoice" -> inv])

\* dict d without key
Without(d, key) == JDict([k \in DOMAIN d.fields \ {key} |-> d.fields[k]])

MealOk == Item(JStr("meals"), JNum(100), JStr("d1"), JBool(TRUE))
MealBad == Item(JStr("meals"), JNum(101), JStr("d1"), JBool(FALSE))
MealToday ==
    Without(Without(Item(JStr("meals"), JNull, JNull, JBool(TRUE)), "date"), "amount")
TransportOk == Item(JStr("transport"), JNum(300), JStr("d1"), JBool(TRUE))
TransportBad ==
    Without(Item(JStr("transport"), JNum(301), JStr("d1"), JNull), "has_invoice")
UnknownOk == Item(JStr("gift"), JStr("100"), JStr("d1"), JBool(TRUE))
NoCategoryBad ==
    Without(Item(JNull, JNum(101), JStr("d1"), JBool(TRUE)), "category")
BadAmount == Item(JStr("meals"), JStr("abc"), JStr("d1"), JBool(TRUE))

ItemUniverse ==
    {MealOk, MealBad, MealToday, TransportOk, TransportBad, UnknownOk,
     NoCategoryBad, BadAmount}

\* The queries handed to invoke and stream: a str (valid JSON or not) or an
\* object that is no str.
BadString == [is_str |-> TRUE, valid_json |-> FALSE, data |-> JNull]
JsonString(d) == [is_str |-> TRUE, valid_json |-> TRUE, data |-> d]
Object(d) == [is_str |-> FALSE, valid_json |-> FALSE, data |-> d]

WithExpenses(e) == JDict([k \in {"expenses"} |-> e])
NoExpenses == JDict([k \in {"items"} |-> JList(<<>>)])

FourMeals == JList(<<MealToday, MealOk, MealBad, MealOk>>)
TwoTransports == JList(<<TransportOk, TransportBad>>)
FaultyBatch == JList(<<MealOk, BadAmount>>)
NotIterable == JNum(7)
NotDicts == JList(<<JNum(5)>>)

SampleQueries ==
    {BadString, JsonString(NoExpenses), Object(JNull),
     JsonString(WithExpenses(FourMeals)), JsonString(WithExpenses(TwoTransports)),
     JsonString(WithExpenses(FaultyBatch)), JsonString(WithExpenses(NotIterable)),
     Object(WithExpenses(NotDicts))}

\* The pickup times and locations drawn.
TimeValues == {0, 1, 5, 20, 21, 24, 59, 60}
TimeTokens == {Digits(v) : v \in TimeValues} \cup {Sym(c) : c \in {":", "dian", "fen", "shi"}}
LocationWords == {"zgc", "zbds", "bm", "hdq", "xynl", "wj", "gm", "x"}

StrTime(toks) == [is_str |-> TRUE, toks |-> toks]
NotAStr == [is_str |-> FALSE, toks |-> <<>>]

SampleTimes ==
    {StrTime(<<Digits(21), Sym(":"), Digits(0)>>),
     StrTime(<<Digits(20), Sym(":"), Digits(59)>>),
     StrTime(<<Digits(5), Sym("dian")>>),
     StrTime(<<Sym("dian"), Digits(5)>>),
     NotAStr}

SampleLocations == {<<"zgc", "zbds">>, <<"zgc">>, <<"x">>, <<"x", "xynl">>}

\* Final events by the parts of their content, and a non-final event.
RunnerEvents ==
    {[final |-> TRUE, parts |-> ps] :
        ps \in {<<>>, <<"text">>, <<"function_response">>, <<"empty">>,
                <<"empty", "function_response">>, <<"function_response", "text">>}}
    \cup {[final |-> FALSE, parts |-> <<>>]}

RECURSIVE SeqsUpTo(_, _)
SeqsUpTo(S, n) ==
    IF n = 0 THEN {<<>>}
    ELSE LET shorter == SeqsUpTo(S, n - 1)
         IN shorter \cup {Append(q, x) : q \in {r \in shorter : Len(r) = n - 1}, x \in S}

Batches == {JList(q) : q \in SeqsUpTo(ItemUniverse, MaxItems)}

----------------------------------------------------------------------------
(* The state machine *)

NotCalled == [called |-> FALSE]
NoCall == [mode |-> "none"]
NewStream == [pc |-> "created", events |-> <<>>, n |-> 0, exc |-> ""]

\* The state after the modules are imported and FinanceAgent() is built; the
\* day does not change within a behaviour.
Init ==
    /\ cc = NotCalled
    /\ calls = [i \in 1 .. NumCalls |-> NoCall]
    /\ clock \in Days
    /\ request_ids = {}
    /\ issued = <<>>
    /\ taxi = [op |-> "none"]
    /\ pt = NotCalled
    /\ pl = NotCalled
    /\ ts = NewStream

\* agent._check_compliance(expenses), called once
CheckComplianceCall ==
    /\ ~cc.called
    /\ \E expenses \in Batches :
          cc' = [called |-> TRUE, expenses |-> expenses,
                 ret |-> CheckCompliance(expenses, clock)]
    /\ UNCHANGED <<calls, clock, request_ids, issued, taxi, pt, pl, ts>>

NextCompliance == CheckComplianceCall

SpecCompliance == Init /\ [][NextCompliance]_vars

\* Invoke and StreamCompute on the sample queries, evaluated once.
InvokeResults == [q \in SampleQueries, d \in Days |-> Invoke(q, d)]
StreamResults == [q \in SampleQueries, d \in Days |-> StreamCompute(q, d)]

\* StreamResume without the `except Exception` of line 190: a fault in the
\* evaluation ends the generator and no terminal event is yielded
StreamResumeNoCatch(g, today) ==
    CASE g.pc = "created" -> [g EXCEPT !.pc = "progress", !.events = Append(@, InProgress)]
      [] g.pc = "progress" ->
            IF StreamResults[g.query, today].content.kind = "error_text"
            THEN [g EXCEPT !.pc = "closed"]
            ELSE [g EXCEPT !.pc = "done",
                           !.events = Append(@, StreamResults[g.query, today])]
      [] g.pc = "done" -> [g EXCEPT !.pc = "closed"]
      [] OTHER -> g

\* One resumption (__anext__) of the generator stream() returned: the new
\* position and the events yielded so far.  StreamResults[q, d] is
\* StreamCompute(q, d).
\*   "created"   not started          "progress"  suspended at line 154
\*   "done"      suspended at the yield of the terminal event
\*   "closed"    the generator returned (StopAsyncIteration)
StreamResume(g, today) ==
    CASE g.pc = "created" -> [g EXCEPT !.pc = "progress", !.events = Append(@, InProgress)]
      [] g.pc = "progress" ->
            [g EXCEPT !.pc = "done", !.events = Append(@, StreamResults[g.query, today])]
      [] g.pc = "done" -> [g EXCEPT !.pc = "closed"]
      [] OTHER -> g

\* agent.invoke(query, session_id) on a free slot
InvokeCall(i) ==
    /\ calls[i].mode = "none"
    /\ \E q \in SampleQueries :
          calls' = [calls EXCEPT ![i] =
                      [mode |-> "invoke", query |-> q, ret |-> InvokeResults[q, clock]]]
    /\ UNCHANGED <<cc, clock, request_ids, issued, taxi, pt, pl, ts>>

\* agent.stream(query, session_id) on a free slot: the generator is created,
\* nothing of its body has run
StreamCall(i) ==
    /\ calls[i].mode = "none"
    /\ \E q \in SampleQueries :
          calls' = [calls EXCEPT ![i] =
                      [mode |-> "stream", query |-> q, pc |-> "created", events |-> <<>>]]
    /\ UNCHANGED <<cc, clock, request_ids, issued, taxi, pt, pl, ts>>

\* The consumer of generator i requests its next event.
StreamNext(i) ==
    /\ calls[i].mode = "stream"
    /\ calls[i].pc # "closed"
    /\ calls' = [calls EXCEPT ![i] = StreamResume(@, clock)]
    /\ UNCHANGED <<cc, clock, request_ids, issued, taxi, pt, pl, ts>>

NextFinance ==
    \E i \in 1 .. NumCalls : InvokeCall(i) \/ StreamCall(i) \/ StreamNext(i)

SpecFinance == Init /\ [][NextFinance]_vars

\* The consumer keeps requesting events from every generator it holds.
FairSpecFinance == SpecFinance /\ \A i \in 1 .. NumCalls : WF_vars(StreamNext(i))

\* is_valid_pickup_time(pickup_time), called once
PickupTimeCall ==
    /\ ~pt.called
    /\ \E t \in {StrTime(q) : q \in SeqsUpTo(TimeTokens, MaxTimeTokens)} \cup {NotAStr} :
          pt' = [called |-> TRUE, input |-> t, ret |-> is_valid_pickup_time(t)]
    /\ UNCHANGED <<cc, calls, clock, request_ids, issued, taxi, pl, ts>>

NextPickupTime == PickupTimeCall

SpecPickupTime == Init /\ [][NextPickupTime]_vars

\* is_valid_pickup_location(location), called once
PickupLocationCall ==
    /\ ~pl.called
    /\ \E l \in SeqsUpTo(LocationWords, MaxLocTokens) :
          pl' = [called |-> TRUE, input |-> l, ret |-> is_valid_pickup_location(l)]
    /\ UNCHANGED <<cc, calls, clock, request_ids, issued, taxi, pt, ts>>

NextPickupLocation == PickupLocationCall

SpecPickupLocation == Init /\ [][NextPickupLocation]_vars

\* The tool create_taxi_request_form is called: random.randint draws id.
CreateForm ==
    /\ Len(issued) < MaxForms
    /\ \E id \in 1 .. NumIds, given \in BOOLEAN :
          LET form == IF given
                      THEN create_taxi_request_form(id, <<"zgc", "zbds">>,
                                <<Digits(21), Sym(":"), Digits(0)>>)
                      ELSE create_taxi_request_form(id, <<>>, <<>>)
          IN /\ request_ids' = request_ids \cup {form.request_id}
             /\ issued' = Append(issued, form.request_id)
             /\ taxi' = [op |-> "create", ret |-> form]
    /\ UNCHANGED <<cc, calls, clock, pt, pl, ts>>

\* Reimburse removing the id it looked up from the ledger
ReimburseConsumes ==
    /\ \E id \in 0 .. NumIds, l \in SampleLocations, t \in SampleTimes :
          /\ taxi' = [op |-> "reimburse", request_id |-> id, pickup_location |-> l,
                      pickup_time |-> t,
                      ret |-> reimburse_taxi(request_ids, id, l, t)]
          /\ request_ids' = request_ids \ {id}
    /\ UNCHANGED <<cc, calls, clock, issued, pt, pl, ts>>

\* The tool reimburse_taxi is called; id 0 stands for a string that is no
\* id create_taxi_request_form can return.
Reimburse ==
    /\ \E id \in 0 .. NumIds, l \in SampleLocations, t \in SampleTimes :
          taxi' = [op |-> "reimburse", request_id |-> id, pickup_location |-> l,
                   pickup_time |-> t,
                   ret |-> reimburse_taxi(request_ids, id, l, t)]
    /\ UNCHANGED <<cc, calls, clock, request_ids, issued, pt, pl, ts>>

NextTaxi == CreateForm \/ Reimburse

SpecTaxi == Init /\ [][NextTaxi]_vars

Running == ts.pc \in {"created", "running"}

\* The consumer requests the next event and run_async yields one.
RunnerYields ==
    /\ Running
    /\ ts.n < MaxRunnerEvents
    /\ \E e \in RunnerEvents :
          ts' = TaxiStreamOnEvent([ts EXCEPT !.pc = "running", !.n = @ + 1], e)
    /\ UNCHANGED <<cc, calls, clock, request_ids, issued, taxi, pt, pl>>

\* run_async is exhausted: the `async for` ends and the generator returns.
RunnerEnds ==
    /\ Running
    /\ ts' = [ts EXCEPT !.pc = "closed"]
    /\ UNCHANGED <<cc, calls, clock, request_ids, issued, taxi, pt, pl>>

\* run_async raises: nothing in stream catches it.
RunnerRaises ==
    /\ Running
    /\ ts' = [ts EXCEPT !.pc = "raised", !.exc = "RunnerError"]
    /\ UNCHANGED <<cc, calls, clock, request_ids, issued, taxi, pt, pl>>

NextTaxiStream == RunnerYields \/ RunnerEnds \/ RunnerRaises

SpecTaxiStream == Init /\ [][NextTaxiStream]_vars

\* Every operation of both agents.
Next ==
    \/ NextCompliance
    \/ NextFinance
    \/ NextPickupTime
    \/ NextPickupLocation
    \/ NextTaxi
    \/ NextTaxiStream

Spec == Init /\ [][Next]_vars

----------------------------------------------------------------------------
(* Properties of _check_compliance, under SpecCompliance *)

\* What the claims say of one submitted item, read off the item itself.
CatalogCategories == {"transport", "meals", "lodging", "office", "other"}

HasCatalogCategory(item) ==
    /\ "category" \in DOMAIN item.fields
    /\ item.fields["category"].type = "string"
    /\ item.fields["category"].s \in CatalogCategories

RuleCategory(item) ==
    IF HasCatalogCategory(item) THEN item.fields["category"].s ELSE "other"

AmountOf(item) == ToFloat(Get(item, "amount", JNum(0))).val

DateOf(item, today) == Get(item, "date", JStr(today))

InvoicePresent(item) == Truthy(Get(item, "has_invoice", JBool(FALSE)))

\* The position of item i among the meal items of its date, in submission order
MealRank(items, i, today) ==
    Cardinality({j \in 1 .. i :
        /\ RuleCategory(items[j]) = "meals"
        /\ DateOf(items[j], today) = DateOf(items[i], today)})

ShouldComply(items, i, today) ==
    LET rule == reimbursement_rules[RuleCategory(items[i])]
    IN /\ AmountOf(items[i]) <= rule.max_amount
       /\ rule.need_invoice => InvoicePresent(items[i])
       /\ RuleCategory(items[i]) = "meals" => MealRank(items, i, today) <= rule.daily_limit

RECURSIVE PickFrom(_, _, _, _)
PickFrom(items, i, today, want) ==
    IF i > Len(items) THEN <<>>
    ELSE (IF ShouldComply(items, i, today) = want THEN <<items[i]>> ELSE <<>>)
            \o PickFrom(items, i + 1, today, want)

RECURSIVE SumAmounts(_)
SumAmounts(xs) == IF xs = <<>> THEN 0 ELSE AmountOf(Head(xs)) + SumAmounts(Tail(xs))

\* An annotated copy without its annotations
Strip(er) == Without(Without(er, "compliant"), "reasons")
StripAll(ers) == [k \in 1 .. Len(ers) |-> Strip(ers[k])]

Flag(er) == er.fields["compliant"].n = 1
ReasonsOf(er) == IF "reasons" \in DOMAIN er.fields THEN er.fields["reasons"].items ELSE <<>>
HasReason(er, kind) == \E k \in 1 .. Len(ReasonsOf(er)) : ReasonsOf(er)[k].kind = kind

Returned == cc.called /\ cc.ret.exc = ""

\* C1: every result _check_compliance returns has item_count = len(input),
\* compliant_count + non_compliant_count = item_count, and
\* compliant_total_amount = the sum of the amounts of the items of the
\* compliant list.
C1_CountsAndTotal ==
    Returned =>
        LET r == cc.ret.result
        IN /\ r.item_count = Len(cc.expenses.items)
           /\ r.compliant_count + r.non_compliant_count = r.item_count
           /\ r.total_amount = SumAmounts(r.compliant_expenses)

C1_Witness ==
    /\ Returned
    /\ cc.ret.result.compliant_count >= 2
    /\ cc.ret.result.non_compliant_count >= 2
    /\ cc.ret.result.total_amount > 0
    /\ \E k \in 1 .. Len(cc.ret.result.non_compliant_expenses) :
            AmountOf(cc.ret.result.non_compliant_expenses[k]) > 0

\* C2: an item is in the compliant list iff amount <= cap, an invoice is
\* present when the rule requires one, and (meals) it is within the daily
\* count limit of its date; otherwise it is in the non-compliant list; only
\* compliant amounts are added to the total.
C2_CompliantIff ==
    Returned =>
        LET r == cc.ret.result
            items == cc.expenses.items
        IN /\ StripAll(r.compliant_expenses) = PickFrom(items, 1, clock, TRUE)
           /\ StripAll(r.non_compliant_expenses) = PickFrom(items, 1, clock, FALSE)
           /\ \A k \in 1 .. Len(r.compliant_expenses) : Flag(r.compliant_expenses[k])
           /\ \A k \in 1 .. Len(r.non_compliant_expenses) :
                  ~Flag(r.non_compliant_expenses[k])
           /\ r.total_amount = SumAmounts(PickFrom(items, 1, clock, TRUE))

\* an item exactly at its cap is accepted; one above its cap and without
\* invoice is rejected; of two equal meals one is accepted and one, beyond
\* the daily limit, is rejected
C2_Witness ==
    /\ Returned
    /\ \E k \in 1 .. Len(cc.ret.result.compliant_expenses) :
            Strip(cc.ret.result.compliant_expenses[k]) = TransportOk
    /\ \E k \in 1 .. Len(cc.ret.result.compliant_expenses) :
            Strip(cc.ret.result.compliant_expenses[k]) = MealOk
    /\ \E k \in 1 .. Len(cc.ret.result.non_compliant_expenses) :
            /\ Strip(cc.ret.result.non_compliant_expenses[k]) = MealBad
            /\ ReasonsOf(cc.ret.result.non_compliant_expenses[k])
                  = <<[kind |-> "cap", category |-> "meals"],
                      [kind |-> "invoice", category |-> "meals"]>>
    /\ \E k \in 1 .. Len(cc.ret.result.non_compliant_expenses) :
            /\ Strip(cc.ret.result.non_compliant_expenses[k]) = MealOk
            /\ ReasonsOf(cc.ret.result.non_compliant_expenses[k])
                  = <<[kind |-> "daily", category |-> "meals"]>>

\* C3: for each date the first 3 meal items in submission order never get
\* the daily-count violation and every later meal item of that date is
\* non-compliant with it, whatever the amounts.
C3_FirstThreeMeals ==
    Returned =>
        \A i \in 1 .. Len(cc.expenses.items) :
            RuleCategory(cc.expenses.items[i]) = "meals" =>
                IF MealRank(cc.expenses.items, i, clock) <= 3
                THEN ~HasReason(cc.ret.trace[i], "daily")
                ELSE ~Flag(cc.ret.trace[i]) /\ HasReason(cc.ret.trace[i], "daily")

\* four meals of one date, not adjacent, a rejected one among the first
\* three, the fourth within cap and with invoice and still rejected
C3_Witness ==
    /\ Returned
    /\ Len(cc.expenses.items) = 5
    /\ cc.expenses.items[1] = MealBad
    /\ cc.expenses.items[3] = TransportOk
    /\ cc.expenses.items[5] = MealOk
    /\ MealRank(cc.expenses.items, 5, clock) = 4
    /\ ~HasReason(cc.ret.trace[1], "daily")
    /\ ReasonsOf(cc.ret.trace[5]) = <<[kind |-> "daily", category |-> "meals"]>>

----------------------------------------------------------------------------
(* Properties of FinanceAgent.invoke and stream, under FairSpecFinance *)

Terminal(events) == {k \in 1 .. Len(events) : events[k].is_task_complete}
NonTerminal(events) == {k \in 1 .. Len(events) : ~events[k].is_task_complete}

\* the events of a generator are a prefix of <<InProgress, Done>>
PrefixOfProtocol(events) ==
    /\ Len(events) <= 2
    /\ Len(events) >= 1 => events[1] = InProgress
    /\ Len(events) = 2 => events[2].is_task_complete

\* the generator has returned after exactly <<InProgress, Done>>
Complete(g) ==
    /\ g.pc = "closed"
    /\ Cardinality(NonTerminal(g.events)) = 1
    /\ Cardinality(Terminal(g.events)) = 1
    /\ Terminal(g.events) = {Len(g.events)}

IsStream(i) == calls[i].mode = "stream"

\* C5: for every query the events of stream are exactly one InProgress event
\* followed by exactly one Done event, which is the last event, and a
\* generator whose consumer keeps requesting events reaches it.
C5_OneProgressThenDone ==
    /\ [](\A i \in 1 .. NumCalls :
            IsStream(i) =>
                /\ PrefixOfProtocol(calls[i].events)
                /\ calls[i].pc = "closed" => Complete(calls[i]))
    /\ \A i \in 1 .. NumCalls : IsStream(i) ~> (IsStream(i) /\ Complete(calls[i]))

\* a generator given a batch that faults and one given an unparseable string
\* have both returned
C5_Witness ==
    /\ IsStream(1) /\ calls[1].pc = "closed"
    /\ calls[1].query = JsonString(WithExpenses(FaultyBatch))
    /\ calls[1].events = <<InProgress, Done(ErrorText("ValueError"))>>
    /\ IsStream(2) /\ calls[2].pc = "closed"
    /\ calls[2].query = BadString

\* What a returned value or a Done payload reports: the BatchResult, one of
\* the missing-information markers, or the failure message.
Outcome(p) ==
    CASE p.kind = "json" -> [kind |-> "batch", result |-> p.value, text |-> ""]
      [] p.kind = "response" -> [kind |-> "batch", result |-> p.value.value, text |-> ""]
      [] p.kind = "text" -> [kind |-> "marker", result |-> JNull, text |-> p.text]
      [] p.kind = "error_text" -> [kind |-> "failure", result |-> JNull, text |-> p.exc]

\* C6: the payload of the Done event of stream carries the outcome invoke
\* returns for the same query.
C6_DoneMatchesInvoke ==
    \A i, j \in 1 .. NumCalls :
        (/\ IsStream(i) /\ Len(calls[i].events) = 2
         /\ calls[j].mode = "invoke"
         /\ calls[j].query = calls[i].query)
        => Outcome(calls[i].events[2].content).kind = Outcome(calls[j].ret).kind
           /\ Outcome(calls[i].events[2].content) = Outcome(calls[j].ret)

\* a batch with accepted and rejected items went through both
C6_Witness ==
    \E i, j \in 1 .. NumCalls :
        /\ IsStream(i) /\ calls[i].pc = "closed"
        /\ calls[j].mode = "invoke"
        /\ calls[j].query = calls[i].query
        /\ calls[j].ret.kind = "json"
        /\ calls[j].ret.value.compliant_count > 0
        /\ calls[j].ret.value.non_compliant_count > 0

----------------------------------------------------------------------------
(* Properties of TaxiReimbursementAgent.stream, under SpecTaxiStream *)

Ended == ts.pc \in {"closed", "raised"}

\* C7: whatever events the runner produces, the taxi stream yields exactly one
\* terminal Done event, as its last event, and a failure inside the runner
\* still ends the stream with a Done event instead of an exception.
C7_TaxiStreamOneDoneLast ==
    Ended =>
        /\ ts.pc = "closed"
        /\ Cardinality(Terminal(ts.events)) = 1
        /\ Terminal(ts.events) = {Len(ts.events)}

----------------------------------------------------------------------------
(* Properties of reimburse_taxi, under SpecTaxi *)

Issued == {issued[k] : k \in 1 .. Len(issued)}

Reimbursed == taxi.op = "reimburse"

\* C8: reimburse_taxi approves iff the request id was created, the pickup
\* location is legal and the pickup time is legal; an approved decision has
\* no reason and a rejected one has a non-empty reason.
C8_ApprovedIff ==
    Reimbursed =>
        /\ taxi.ret.status \in {"approved", "rejected"}
        /\ taxi.ret.status = "approved" <=>
              /\ taxi.request_id \in Issued
              /\ is_valid_pickup_location(taxi.pickup_location)
              /\ is_valid_pickup_time(taxi.pickup_time).valid
        /\ taxi.ret.status = "approved" => "reason" \notin DOMAIN taxi.ret
        /\ taxi.ret.status = "rejected" =>
              "reason" \in DOMAIN taxi.ret /\ taxi.ret.reason # ""

\* an approval of a created id, with another id created as well
C8_Witness ==
    /\ Reimbursed
    /\ taxi.ret.status = "approved"
    /\ taxi.request_id \in Issued
    /\ Cardinality(Issued) = 2
    /\ taxi.pickup_time = StrTime(<<Digits(5), Sym("dian")>>)

\* C9: the id is checked first, then the location, then the time, and the
\* reason is that of the first failing check.
C9_FirstFailingCheck ==
    Reimbursed =>
        LET locOk == is_valid_pickup_location(taxi.pickup_location)
            time == is_valid_pickup_time(taxi.pickup_time)
        IN /\ taxi.request_id \notin Issued =>
                 taxi.ret.status = "rejected" /\ taxi.ret.reason = "invalid_request_id"
           /\ (taxi.request_id \in Issued /\ ~locOk) =>
                 taxi.ret.status = "rejected" /\ taxi.ret.reason = "location_not_allowed"
           /\ (taxi.request_id \in Issued /\ locOk /\ ~time.valid) =>
                 taxi.ret.status = "rejected" /\ taxi.ret.reason = time.reason

\* a created id with an illegal location and an illegal time: only the
\* location is reported
C9_Witness ==
    /\ Reimbursed
    /\ taxi.request_id \in Issued
    /\ taxi.pickup_location = <<"zgc">>
    /\ taxi.pickup_time = StrTime(<<Digits(20), Sym(":"), Digits(59)>>)
    /\ taxi.ret.reason = "location_not_allowed"

----------------------------------------------------------------------------
(* Properties of is_valid_pickup_time, under SpecPickupTime *)

\* The strings that denote hour h and minute m in one of the five formats
Denotes(toks, h, m) ==
    \/ toks = <<Digits(h), Sym(":"), Digits(m)>>
    \/ toks = <<Digits(h), Sym("dian"), Digits(m), Sym("fen")>>
    \/ toks = <<Digits(h), Sym("shi"), Digits(m), Sym("fen")>>
    \/ m = 0 /\ toks = <<Digits(h), Sym("dian")>>
    \/ m = 0 /\ toks = <<Digits(h), Sym("shi")>>

Hours == TimeValues \cap (0 .. 23)
Minutes == TimeValues \cap (0 .. 59)

Parseable(toks) == \E h \in Hours, m \in Minutes : Denotes(toks, h, m)

\* C10: a parseable time is accepted iff it is >= 21:00 or <= 05:00, both
\* ends included; an unparseable one is rejected with a reason that is not
\* the out-of-window reason.
C10_NightWindow ==
    pt.called =>
        /\ \A h \in Hours, m \in Minutes :
              (pt.input.is_str /\ Denotes(pt.input.toks, h, m)) =>
                  /\ pt.ret.valid <=> (60 * h + m >= 60 * 21 \/ 60 * h + m <= 60 * 5)
                  /\ ~pt.ret.valid => pt.ret.reason = "time_out_of_window"
        /\ (~pt.input.is_str \/ ~Parseable(pt.input.toks)) =>
              /\ ~pt.ret.valid
              /\ pt.ret.reason \notin {"", "time_out_of_window"}

\* 05:00, written "5点0分", is accepted
C10_Witness ==
    /\ pt.called
    /\ pt.input = StrTime(<<Digits(5), Sym("dian"), Digits(0), Sym("fen")>>)
    /\ pt.ret.valid

----------------------------------------------------------------------------
(* Properties of is_valid_pickup_location, under SpecPickupLocation *)

\* The words of the allow-list and of the deny-list, read off the two lists.
HasWord(location, w) == \E i \in 1 .. Len(location) : location[i] = w
NamesBuilding(location) == HasWord(location, "zbds") \/ HasWord(location, "xynl")
NamesDistrict(location) ==
    HasWord(location, "zgc") \/ HasWord(location, "wj") \/ HasWord(location, "gm")

\* C11: is_valid_pickup_location accepts a location if and only if it
\* contains an allow-list string (every allow-list string holds the word
\* 资本大厦 or 学院南路, each of which is itself on the list); a location with
\* a deny-list district name and no building name is rejected, and so is a
\* location matching neither list.
C11_AllowListOnly ==
    pl.called =>
        /\ pl.ret = (\E k \in 1 .. Len(VALID_PICKUP_LOCATIONS) :
                        Contains(pl.input, VALID_PICKUP_LOCATIONS[k]))
        /\ pl.ret = NamesBuilding(pl.input)
        /\ (NamesDistrict(pl.input) /\ ~NamesBuilding(pl.input) => ~pl.ret)
        /\ (~NamesDistrict(pl.input) /\ ~NamesBuilding(pl.input) => ~pl.ret)

\* A district name alone was rejected, as was a location on neither list;
\* the state reached is the rejection of 望京 next to other text.
C11_Witness ==
    /\ pl.called
    /\ pl.input = <<"x", "wj">>
    /\ ~pl.ret

----------------------------------------------------------------------------
(* Properties of the request ledger, under SpecTaxi *)

\* C12: every call of create_taxi_request_form returns an id that differs
\* from the id of every earlier call, so after n calls the ledger holds n
\* distinct ids.
C12_FreshIds ==
    /\ \A i, j \in 1 .. Len(issued) : i # j => issued[i] # issued[j]
    /\ Cardinality(request_ids) = Len(issued)

\* C13: a request is resolved once: a reimburse_taxi call on a ledger id
\* that the call just before it already resolved (approved or rejected) is
\* rejected, so no id receives a second or a different decision.
C13_ResolvedOnce ==
    [][(/\ taxi.op = "reimburse"
        /\ taxi.request_id \in request_ids
        /\ taxi'.op = "reimburse"
        /\ taxi'.request_id = taxi.request_id)
       => taxi'.ret.status = "rejected"]_vars

----------------------------------------------------------------------------
(* Error handling of FinanceAgent.invoke and stream, under FairSpecFinance *)

\* What the claims call a fault during evaluation, read off the submitted
\* value: expenses that cannot be iterated as a list of objects, or an item
\* whose amount float() does not accept.
BadItem(x) ==
    \/ x.type # "dict"
    \/ LET a == Get(x, "amount", JNum(0))
       IN /\ a.type \notin {"number", "bool"}
          /\ ~(a.type = "string" /\ a.s \in {"100", "101"})

Faulty(expenses) ==
    \/ expenses.type \in {"number", "bool", "null"}
    \/ expenses.type = "list" /\ \E k \in 1 .. Len(expenses.items) : BadItem(expenses.items[k])

Unparseable(query) == query.is_str /\ ~query.valid_json

\* p is the value invoke returned, or the payload of the Done event, for query
Answers(query, p) ==
    /\ p.kind \in {"text", "json", "response", "error_text"}
    /\ Unparseable(query) => (p.kind = "text" /\ p.text = MissingJson)
    /\ (~Unparseable(query) /\ ~HasExpenses(query.data))
          => (p.kind = "text" /\ p.text = MissingExpenses)
    /\ (~Unparseable(query) /\ HasExpenses(query.data)
          /\ Faulty(query.data.fields["expenses"]))
          => (p.kind = "error_text" /\ p.exc # "")

\* C14: no exception leaves invoke or stream: every invoke call has returned
\* a value and every generator that stopped has yielded a Done event last; an
\* unparseable string and a value without an expenses field give a
\* missing-information result, and a fault during evaluation gives the
\* textual failure message as the returned value or the Done payload.
C14_NoFaultEscapes ==
    \A i \in 1 .. NumCalls :
        /\ calls[i].mode = "invoke" => Answers(calls[i].query, calls[i].ret)
        /\ (IsStream(i) /\ calls[i].pc \in {"done", "closed"})
              => /\ Len(calls[i].events) = 2
                 /\ calls[i].events[2].is_task_complete
                 /\ Answers(calls[i].query, calls[i].events[2].content)

\* invoke returned the failure message for expenses that are no list, and a
\* generator given a list holding a number yielded it as its Done payload
C14_Witness ==
    /\ calls[1].mode = "invoke"
    /\ calls[1].query = JsonString(WithExpenses(NotIterable))
    /\ calls[1].ret = ErrorText("TypeError")
    /\ IsStream(2) /\ calls[2].pc = "closed"
    /\ calls[2].query = Object(WithExpenses(NotDicts))
    /\ calls[2].events[2].content = ErrorText("AttributeError")

----------------------------------------------------------------------------
(* Further properties of _check_compliance, under SpecCompliance *)

\* the amount of the item is absent, or a value float() does not read
AmountMissingOrInvalid(item) ==
    \/ "amount" \notin DOMAIN item.fields
    \/ /\ item.fields["amount"].type \notin {"number", "bool"}
       /\ ~(item.fields["amount"].type = "string"
            /\ item.fields["amount"].s \in {"100", "101"})

\* C15: an item whose amount is missing or invalid is evaluated with amount
\* 0, and the batch holding it still yields a BatchResult that covers every
\* item instead of an error outcome.
C15_BadAmountIsZero ==
    (cc.called /\ \E k \in 1 .. Len(cc.expenses.items) :
                      AmountMissingOrInvalid(cc.expenses.items[k]))
    => /\ cc.ret.exc = ""
       /\ cc.ret.result.item_count = Len(cc.expenses.items)
       /\ cc.ret.result.compliant_count + cc.ret.result.non_compliant_count
            = Len(cc.expenses.items)

MealsBefore(items, i, today, trace, flag) ==
    {j \in 1 .. (i - 1) :
        /\ RuleCategory(items[j]) = "meals"
        /\ DateOf(items[j], today) = DateOf(items[i], today)
        /\ Flag(trace[j]) = flag}

\* item i passes the cap check and the invoice check
WithinCapWithInvoice(item) ==
    /\ AmountOf(item) <= reimbursement_rules[RuleCategory(item)].max_amount
    /\ InvoicePresent(item)

\* C17: a meal item takes a daily slot of its date even when it is itself
\* rejected: a meal within the cap and with an invoice is rejected, with the
\* daily-count reason alone, exactly when three or more meals of its date
\* came before it, accepted or rejected, and so also when every one of them
\* was rejected.
C17_RejectedMealsCount ==
    Returned =>
        \A i \in 1 .. Len(cc.expenses.items) :
            (/\ RuleCategory(cc.expenses.items[i]) = "meals"
             /\ WithinCapWithInvoice(cc.expenses.items[i]))
            => LET ok == MealsBefore(cc.expenses.items, i, clock, cc.ret.trace, TRUE)
                   bad == MealsBefore(cc.expenses.items, i, clock, cc.ret.trace, FALSE)
               IN /\ Flag(cc.ret.trace[i]) = (Cardinality(ok) + Cardinality(bad) < 3)
                  /\ ~Flag(cc.ret.trace[i]) =>
                        ReasonsOf(cc.ret.trace[i])
                            = <<[kind |-> "daily", category |-> "meals"]>>
                  /\ Cardinality(bad) >= 3 => ~Flag(cc.ret.trace[i])

\* three rejected meals, then a meal within cap and with invoice that is
\* rejected for the count alone although no meal of its date was accepted
C17_Witness ==
    /\ Returned
    /\ cc.expenses.items = <<MealBad, MealBad, MealBad, MealOk>>
    /\ cc.ret.result.compliant_count = 0
    /\ ReasonsOf(cc.ret.trace[4]) = <<[kind |-> "daily", category |-> "meals"]>>

\* c is an interleaving of a and b: a and b are subsequences of c, in c's
\* order, that together take every element of c exactly once
RECURSIVE IsMerge(_, _, _)
IsMerge(a, b, c) ==
    IF c = <<>> THEN a = <<>> /\ b = <<>>
    ELSE \/ a # <<>> /\ Head(a) = Head(c) /\ IsMerge(Tail(a), b, Tail(c))
         \/ b # <<>> /\ Head(b) = Head(c) /\ IsMerge(a, Tail(b), Tail(c))

\* the elements of xs at the positions whose copy in trace has the flag
RECURSIVE SelectByFlag(_, _, _, _)
SelectByFlag(xs, trace, flag, i) ==
    IF i > Len(xs) THEN <<>>
    ELSE (IF Flag(trace[i]) = flag THEN <<xs[i]>> ELSE <<>>)
            \o SelectByFlag(xs, trace, flag, i + 1)

\* C18: _check_compliance does not reorder items: the compliant list and
\* the non-compliant list, annotations aside, are subsequences of the input
\* in submission order and together hold every input item exactly once.
C18_OrderKept ==
    Returned =>
        LET items == cc.expenses.items
            good == StripAll(cc.ret.result.compliant_expenses)
            bad == StripAll(cc.ret.result.non_compliant_expenses)
        IN /\ IsMerge(good, bad, items)
           /\ Len(good) + Len(bad) = Len(items)
           /\ good = SelectByFlag(items, cc.ret.trace, TRUE, 1)
           /\ bad = SelectByFlag(items, cc.ret.trace, FALSE, 1)

\* accepted and rejected items alternate in the input and each list keeps
\* the submission order of its items
C18_Witness ==
    /\ Returned
    /\ cc.expenses.items = <<TransportOk, TransportBad, MealOk, MealBad, UnknownOk>>
    /\ StripAll(cc.ret.result.compliant_expenses) = <<TransportOk, MealOk, UnknownOk>>
    /\ StripAll(cc.ret.result.non_compliant_expenses) = <<TransportBad, MealBad>>

\* the reasons the checks the item itself violates call for, in the order
\* cap, invoice, daily count
ExpectedReasons(items, i, today) ==
    LET c == RuleCategory(items[i])
        rule == reimbursement_rules[c]
    IN (IF AmountOf(items[i]) > rule.max_amount
        THEN <<[kind |-> "cap", category |-> c]>> ELSE <<>>)
       \o (IF ~InvoicePresent(items[i])
           THEN <<[kind |-> "invoice", category |-> c]>> ELSE <<>>)
       \o (IF c = "meals" /\ MealRank(items, i, today) > 3
           THEN <<[kind |-> "daily", category |-> c]>> ELSE <<>>)

\* C19: the reasons of a verdict hold one entry per violated check, in the
\* order cap, invoice, daily count, with no check skipped after an earlier
\* one failed; an item is non-compliant exactly when its reasons are not
\* empty, and a compliant copy carries no reasons.
C19_ReasonsAccumulate ==
    Returned =>
        \A i \in 1 .. Len(cc.expenses.items) :
            /\ ReasonsOf(cc.ret.trace[i]) = ExpectedReasons(cc.expenses.items, i, clock)
            /\ ~Flag(cc.ret.trace[i]) = (ReasonsOf(cc.ret.trace[i]) # <<>>)
            /\ Flag(cc.ret.trace[i]) => "reasons" \notin DOMAIN cc.ret.trace[i].fields

\* the fourth meal of a date, above the cap and without invoice, carries
\* all three reasons in order
C19_Witness ==
    /\ Returned
    /\ cc.expenses.items = <<MealOk, MealOk, MealOk, MealBad>>
    /\ ReasonsOf(cc.ret.trace[4])
          = <<[kind |-> "cap", category |-> "meals"],
              [kind |-> "invoice", category |-> "meals"],
              [kind |-> "daily", category |-> "meals"]>>
    /\ Flag(cc.ret.trace[1])

----------------------------------------------------------------------------
(* Frame of the request ledger, under SpecTaxi *)

\* C20: the ledger only grows: every id create_taxi_request_form returned
\* is in the ledger, no step removes an id, and a reimburse_taxi call,
\* approving or rejecting, leaves the ledger as it was.
C20_LedgerOnlyGrows ==
    /\ [](\A k \in 1 .. Len(issued) : issued[k] \in request_ids)
    /\ [][/\ request_ids \subseteq request_ids'
          /\ taxi'.op = "reimburse" => request_ids' = request_ids]_vars

\* an id was created and then went through an approving reimburse_taxi
\* call, and it is still in the ledger
C20_Witness ==
    /\ Len(issued) >= 2
    /\ taxi.op = "reimburse"
    /\ taxi.ret.status = "approved"
    /\ taxi.request_id \in request_ids
    /\ \A k \in 1 .. Len(issued) : issued[k] \in request_ids

----------------------------------------------------------------------------
(* Isolation of evaluations on one FinanceAgent, under FairSpecFinance *)

\* slot i holds the outcome of an evaluation: invoke returned, or the
\* generator yielded its Done event
HasOutcome(i) ==
    \/ calls[i].mode = "invoke"
    \/ IsStream(i) /\ Len(calls[i].events) = 2

OutcomeOf(i) ==
    IF calls[i].mode = "invoke" THEN Outcome(calls[i].ret)
    ELSE Outcome(calls[i].events[2].content)

\* C21: the daily meal accumulator belongs to one evaluation: the verdicts
\* of a batch are the ones its own items call for, whatever was evaluated on
\* the instance before it or between the steps of its generator, and two
\* calls given the same query have the same outcome in whatever order and
\* interleaving they ran.
C21_EvaluationsIndependent ==
    /\ \A i \in 1 .. NumCalls :
          (HasOutcome(i) /\ OutcomeOf(i).kind = "batch")
          => LET items == calls[i].query.data.fields["expenses"].items
                 r == OutcomeOf(i).result
             IN /\ StripAll(r.compliant_expenses) = PickFrom(items, 1, clock, TRUE)
                /\ StripAll(r.non_compliant_expenses) = PickFrom(items, 1, clock, FALSE)
    /\ \A i, j \in 1 .. NumCalls :
          (HasOutcome(i) /\ HasOutcome(j) /\ calls[i].query = calls[j].query)
          => OutcomeOf(i) = OutcomeOf(j)

\* two generators were given the same four meals; the first has returned and
\* the second has yielded its Done event, with the verdicts of the first
C21_Witness ==
    /\ IsStream(1) /\ calls[1].pc = "closed"
    /\ IsStream(2) /\ calls[2].pc = "done"
    /\ calls[1].query = JsonString(WithExpenses(FourMeals))
    /\ calls[2].query = JsonString(WithExpenses(FourMeals))
    /\ OutcomeOf(1).kind = "batch"
    /\ OutcomeOf(1).result.compliant_count >= 2
    /\ OutcomeOf(2) = OutcomeOf(1)

=============================================================================
